---- MODULE Spec2Model ----
(***************************************************************************)
(* JSON Vault: a shared document (workflow static data slot `jsonVault`)   *)
(* mutated by the Insert / Update / Delete / Clear / JSON Vault nodes and  *)
(* read by the List / Find nodes.                                          *)
(*                                                                         *)
(* JavaScript values are tagged records:                                   *)
(*   [t |-> "undefined"], [t |-> "null"], [t |-> "boolean", b |-> ..],     *)
(*   [t |-> "number", n |-> ..], [t |-> "function"],                       *)
(*   [t |-> "string", s |-> <<chars>>, fill |-> n] (the text s followed by *)
(*   n filler characters "x", so that a string of megabytes is one value), *)
(*   [t |-> "array", elems |-> <<..>>, props |-> <<entries>>],             *)
(*   [t |-> "object", props |-> <<entries>>]                               *)
(* An entry is [key |-> <<chars>>, val |-> value]; the order of `props` is *)
(* the property order of the JavaScript object.  Key strings are           *)
(* sequences of one-character strings.  The modelled key alphabet has no   *)
(* digit-only segment and no "length" segment, so array indices and the    *)
(* length of arrays and strings are never addressed by a path.             *)
(***************************************************************************)
EXTENDS Integers, Sequences, FiniteSets, TLC

Undef == [t |-> "undefined"]
Null == [t |-> "null"]
Fn == [t |-> "function"]
Bool(b) == [t |-> "boolean", b |-> b]
Num(n) == [t |-> "number", n |-> n]
Str(s, fill) == [t |-> "string", s |-> s, fill |-> fill]
\* s.length
StrLen(v) == Len(v.s) + v.fill
\* s[i], i counted from 0, as a one-character string
CharAt(v, i) == Str(<< IF i < Len(v.s) THEN v.s[i + 1] ELSE "x" >>, 0)
Arr(elems, props) == [t |-> "array", elems |-> elems, props |-> props]
Obj(props) == [t |-> "object", props |-> props]
Entry(k, v) == [key |-> k, val |-> v]
EmptyObj == Obj(<< >>)

\* typeof v
TypeOf(v) ==
  CASE v.t = "null" -> "object"
    [] v.t = "array" -> "object"
    [] OTHER -> v.t

\* ToBoolean(v), as used by `!x` and `x && ...`
Truthy(v) ==
  CASE v.t = "undefined" -> FALSE
    [] v.t = "null" -> FALSE
    [] v.t = "boolean" -> v.b
    [] v.t = "number" -> v.n # 0
    [] v.t = "string" -> StrLen(v) > 0
    [] OTHER -> TRUE

IsArray(v) == v.t = "array"

\* vault-utils.ts isObject: item && typeof item === 'object' && !Array.isArray(item)
isObject(item) == Truthy(item) /\ TypeOf(item) = "object" /\ ~IsArray(item)

\* Values that carry own named properties.
HasProps(v) == v.t \in {"object", "array"}

PropIndex(props, k) ==
  IF \E i \in 1..Len(props) : props[i].key = k
    THEN CHOOSE i \in 1..Len(props) : props[i].key = k
    ELSE 0

DigitChars == << "0", "1", "2", "3", "4", "5", "6", "7", "8", "9" >>

\* k is a canonical array index: "0", "1", ..., "10", ...
IsIndex(k) ==
  /\ Len(k) > 0
  /\ \A i \in 1..Len(k) : \E d \in 1..10 : DigitChars[d] = k[i]
  /\ (Len(k) = 1 \/ k[1] # "0")

DigitVal(c) == (CHOOSE d \in 1..10 : DigitChars[d] = c) - 1

RECURSIVE IndexOf(_)
\* Number(k) for an index k
IndexOf(k) ==
  IF Len(k) = 1 THEN DigitVal(k[1])
  ELSE 10 * IndexOf(SubSeq(k, 1, Len(k) - 1)) + DigitVal(k[Len(k)])

\* v is an array with an element (not a hole) at index k
HasElem(v, k) ==
  /\ v.t = "array"
  /\ IsIndex(k)
  /\ IndexOf(k) < Len(v.elems)
  /\ v.elems[IndexOf(k) + 1] # Undef

\* v is a string with a character at index k
HasChar(v, k) == v.t = "string" /\ IsIndex(k) /\ IndexOf(k) < StrLen(v)

\* v has an own named property k
HasNamed(v, k) == HasProps(v) /\ PropIndex(v.props, k) # 0

\* Object.prototype.hasOwnProperty.call(v, k) for an object or array v
HasOwn(v, k) == HasNamed(v, k) \/ HasElem(v, k)

\* Properties every non-nullish value inherits from Object.prototype
\* (a representative one of them; its value is a function).
ProtoProps == { <<"v","a","l","u","e","O","f">> }

\* v[k] for a non-nullish v
Get(v, k) ==
  IF HasElem(v, k) THEN v.elems[IndexOf(k) + 1]
  ELSE IF HasChar(v, k) THEN CharAt(v, IndexOf(k))
  ELSE IF HasNamed(v, k) THEN v.props[PropIndex(v.props, k)].val
  ELSE IF k \in ProtoProps THEN Fn
  ELSE Undef

\* k in v  (own or inherited)
In(k, v) == HasOwn(v, k) \/ k \in ProtoProps

SetProp(props, k, val) ==
  IF PropIndex(props, k) # 0
    THEN [props EXCEPT ![PropIndex(props, k)] = Entry(k, val)]
    ELSE Append(props, Entry(k, val))

\* elems[i] = val, i counted from 0; positions skipped become holes
SetElem(elems, i, val) ==
  [j \in 1..(IF i + 1 > Len(elems) THEN i + 1 ELSE Len(elems)) |->
     IF j = i + 1 THEN val ELSE IF j <= Len(elems) THEN elems[j] ELSE Undef]

\* v[k] = val for an object or array v
Put(v, k, val) ==
  IF v.t = "array" /\ IsIndex(k)
    THEN [v EXCEPT !.elems = SetElem(v.elems, IndexOf(k), val)]
    ELSE [v EXCEPT !.props = SetProp(v.props, k, val)]

DelProp(props, k) ==
  LET i == PropIndex(props, k)
  IN IF i = 0 THEN props
     ELSE [j \in 1..(Len(props) - 1) |-> IF j < i THEN props[j] ELSE props[j + 1]]

\* delete v[k] for an object or array v (a deleted element leaves a hole)
DeleteOwn(v, k) ==
  IF HasElem(v, k)
    THEN [v EXCEPT !.elems = SetElem(v.elems, IndexOf(k), Undef)]
    ELSE [v EXCEPT !.props = DelProp(v.props, k)]

\* Object.keys(v)
ObjectKeys(v) == [i \in 1..Len(v.props) |-> v.props[i].key]

\* The characters the key grammar /^[a-zA-Z0-9_.-]+$/ admits.
KeyChars ==
  { "a","b","c","d","e","f","g","h","i","j","k","l","m","n","o","p","q","r","s",
    "t","u","v","w","x","y","z","A","B","C","D","E","F","G","H","I","J","K","L",
    "M","N","O","P","Q","R","S","T","U","V","W","X","Y","Z","0","1","2","3","4",
    "5","6","7","8","9","_",".","-" }

\* vault-utils.ts validateKey
validateKey(key) ==
  IF Len(key) = 0 THEN FALSE
  ELSE \A i \in 1..Len(key) : key[i] \in KeyChars

\* key.includes('.')
IncludesDot(key) == \E i \in 1..Len(key) : key[i] = "."

RECURSIVE Split(_)
\* path.split('.')
Split(s) ==
  IF ~IncludesDot(s) THEN << s >>
  ELSE LET i == CHOOSE j \in 1..Len(s) :
                  s[j] = "." /\ \A m \in 1..(j - 1) : s[m] # "."
       IN << SubSeq(s, 1, i - 1) >> \o Split(SubSeq(s, i + 1, Len(s)))

RECURSIVE getWalk(_, _, _)
\* the loop of getNestedValue from position i
getWalk(current, keys, i) ==
  IF i > Len(keys) THEN current
  ELSE IF current.t \in {"undefined", "null"} THEN Undef
  ELSE getWalk(Get(current, keys[i]), keys, i + 1)

\* vault-utils.ts getNestedValue
getNestedValue(obj, path) == getWalk(obj, Split(path), 1)

RECURSIVE setWalk(_, _, _, _)
\* Mutant of setWalk: every intermediate segment gets a new empty object,
\* whatever it held.
setWalkFresh(current, keys, i, value) ==
  IF i = Len(keys) THEN Put(current, keys[i], value)
  ELSE Put(current, keys[i], setWalk(EmptyObj, keys, i + 1, value))

\* the loop of setNestedValue from position i; yields the updated `current`
setWalk(current, keys, i, value) ==
  IF i = Len(keys) THEN Put(current, keys[i], value)
  ELSE LET child == Get(current, keys[i])
           next == IF ~Truthy(child) \/ TypeOf(child) # "object"
                     THEN EmptyObj ELSE child
       IN Put(current, keys[i], setWalk(next, keys, i + 1, value))

\* vault-utils.ts setNestedValue (the object after the in-place update)
setNestedValue(obj, path, value) == setWalk(obj, Split(path), 1, value)

RECURSIVE deleteWalk(_, _, _)
\* the loop of deleteNestedValue from position i: [obj, deleted]
deleteWalk(current, keys, i) ==
  IF i = Len(keys)
    THEN IF HasOwn(current, keys[i])
           THEN [obj |-> DeleteOwn(current, keys[i]), deleted |-> TRUE]
           ELSE [obj |-> current, deleted |-> FALSE]
  ELSE LET child == Get(current, keys[i])
       IN IF ~Truthy(child) \/ TypeOf(child) # "object"
            THEN [obj |-> current, deleted |-> FALSE]
            ELSE LET r == deleteWalk(child, keys, i + 1)
                 IN [obj |-> IF r.deleted THEN Put(current, keys[i], r.obj)
                                          ELSE current,
                     deleted |-> r.deleted]

\* Mutant of deleteNestedValue: the last segment is deleted from the root
\* object instead of the container the walk reached.
deleteNestedValueTop(obj, path) ==
  LET keys == Split(path)
      lastKey == keys[Len(keys)]
  IN IF HasOwn(obj, lastKey)
       THEN [obj |-> DeleteOwn(obj, lastKey), deleted |-> TRUE]
       ELSE [obj |-> obj, deleted |-> FALSE]

\* vault-utils.ts deleteNestedValue: the object after the call and the result
deleteNestedValue(obj, path) == deleteWalk(obj, Split(path), 1)

RECURSIVE Dec(_)
\* String(i) for an integer i >= 0
Dec(i) == IF i < 10 THEN << DigitChars[i + 1] >>
          ELSE Dec(i \div 10) \o << DigitChars[(i % 10) + 1] >>

\* { ...v }: a new object with the own enumerable properties of v
Spread(v) ==
  CASE v.t = "object" -> Obj(v.props)
    [] v.t = "array" ->
         Obj(SelectSeq([i \in 1..Len(v.elems) |-> Entry(Dec(i - 1), v.elems[i])],
                       LAMBDA e : e.val # Undef) \o v.props)
    [] v.t = "string" ->
         Obj([i \in 1..StrLen(v) |-> Entry(Dec(i - 1), CharAt(v, i - 1))])
    [] OTHER -> EmptyObj

RECURSIVE deepMerge(_, _)
RECURSIVE mergeKeys(_, _, _, _)
RECURSIVE mergeKeysShallow(_, _, _, _)
\* Mutant of mergeKeys: a shallow merge, every key of source assigned as it is.
mergeKeysShallow(output, target, source, i) ==
  IF i > Len(source.props) THEN output
  ELSE mergeKeysShallow(Put(output, source.props[i].key, source.props[i].val),
                        target, source, i + 1)

\* the forEach over Object.keys(source) inside deepMerge, from position i
mergeKeys(output, target, source, i) ==
  IF i > Len(source.props) THEN output
  ELSE LET key == source.props[i].key
           sv == source.props[i].val
           out == IF isObject(sv)
                    THEN IF ~In(key, target)
                           THEN Put(output, key, sv)
                           ELSE Put(output, key, deepMerge(Get(target, key), sv))
                    ELSE Put(output, key, sv)
       IN mergeKeys(out, target, source, i + 1)

\* vault-utils.ts deepMerge
deepMerge(target, source) ==
  IF isObject(target) /\ isObject(source)
    THEN mergeKeys(Spread(target), target, source, 1)
    ELSE Spread(target)

RECURSIVE NumLen(_)
\* String(n).length for an integer n
NumLen(n) == IF n < 0 THEN 1 + NumLen(0 - n)
             ELSE IF n < 10 THEN 1 ELSE 1 + NumLen(n \div 10)

RECURSIVE JsonLen(_)
RECURSIVE ElemsLen(_, _)
RECURSIVE PropsLen(_, _)
\* total length of the serialized elements from position i, commas included
ElemsLen(elems, i) ==
  IF i > Len(elems) THEN 0
  ELSE JsonLen(elems[i]) + (IF i < Len(elems) THEN 1 ELSE 0) + ElemsLen(elems, i + 1)

\* total length of the serialized "key":value members from position i, commas included
PropsLen(props, i) ==
  IF i > Len(props) THEN 0
  ELSE Len(props[i].key) + 3 + JsonLen(props[i].val)
         + (IF i < Len(props) THEN 1 ELSE 0) + PropsLen(props, i + 1)

\* JSON.stringify(v).length
JsonLen(v) ==
  CASE v.t = "null" -> 4
    [] v.t = "undefined" -> 4   \* a hole of an array is written as null
    [] v.t = "boolean" -> IF v.b THEN 4 ELSE 5
    [] v.t = "number" -> NumLen(v.n)
    [] v.t = "string" -> StrLen(v) + 2
    [] v.t = "array" -> 2 + ElemsLen(v.elems, 1)
    [] v.t = "object" -> 2 + PropsLen(v.props, 1)

\* vault-utils.ts validateVaultSize: the size limit
MAX_VAULT_SIZE == 10 * 1024 * 1024

\* Mutant of validateVaultSize: a vault of exactly the limit is rejected too.
validateVaultSizeBelow(vault) == ~(JsonLen(vault) >= MAX_VAULT_SIZE)

\* vault-utils.ts validateVaultSize: TRUE when it returns, FALSE when it throws
validateVaultSize(vault) == ~(JsonLen(vault) > MAX_VAULT_SIZE)

(***************************************************************************)
(* Node executions.  Each operator is one `execute` call on one input item *)
(* and yields [vault, res]: the content of staticData.jsonVault when the   *)
(* call returns or throws, and the output record (or the error raised).    *)
(* A parameter `jsonData` is a JSON text: [parses, value], where value is  *)
(* what JSON.parse returns when the text parses.                           *)
(***************************************************************************)
JsonText(v) == [parses |-> TRUE, value |-> v]
BadText == [parses |-> FALSE, value |-> Undef]

NoRes ==
  [success |-> TRUE, error |-> "none", action |-> "none", existed |-> FALSE,
   value |-> Undef, keys |-> << >>, count |-> 0, items |-> << >>]

Thrown(vault, kind) ==
  [vault |-> vault, res |-> [NoRes EXCEPT !.success = FALSE, !.error = kind]]

Returned(vault, res) == [vault |-> vault, res |-> res]

\* InsertJson.node.ts 168-189: the assignment into the vault
insertAssign(vault, key, mergeMode, jsonValue) ==
  IF IncludesDot(key)
    THEN LET existingValue == getNestedValue(vault, key)
             merged ==
               IF mergeMode = "merge" /\ existingValue # Undef
                    /\ TypeOf(existingValue) = "object" /\ ~IsArray(existingValue)
                    /\ TypeOf(jsonValue) = "object" /\ ~IsArray(jsonValue)
                 THEN deepMerge(existingValue, jsonValue)
                 ELSE jsonValue
         IN setNestedValue(vault, key, merged)
    ELSE IF mergeMode = "merge" /\ Get(vault, key) # Undef
              /\ TypeOf(Get(vault, key)) = "object" /\ ~IsArray(Get(vault, key))
              /\ TypeOf(jsonValue) = "object" /\ ~IsArray(jsonValue)
           THEN Put(vault, key, deepMerge(Get(vault, key), jsonValue))
           ELSE Put(vault, key, jsonValue)

\* Mutant of insertRefused: the existence test written as a truthiness test,
\* `if (existingValue)`.
insertRefusedIfTruthy(vault, key, mergeMode) ==
  LET existingValue == IF IncludesDot(key) THEN getNestedValue(vault, key)
                                           ELSE Get(vault, key)
  IN mergeMode = "replace" /\ Truthy(existingValue)

\* InsertJson.node.ts 150-159: replace mode refuses a key that already exists
insertRefused(vault, key, mergeMode) ==
  LET existingValue == IF IncludesDot(key) THEN getNestedValue(vault, key)
                                           ELSE Get(vault, key)
  IN mergeMode = "replace" /\ existingValue # Undef

\* Mutant of InsertJsonExecute: the containers of a dotted key are created
\* before the payload is parsed.
InsertJsonExecuteEnsuresPathFirst(slot, key, mergeMode, dataSource, jsonData, itemJson) ==
  LET vault == IF ~Truthy(slot) THEN EmptyObj ELSE slot
  IN IF Len(key) = 0 THEN Thrown(vault, "KeyInvalid")
     ELSE IF ~validateKey(key) THEN Thrown(vault, "KeyInvalid")
     ELSE IF dataSource = "manual" /\ ~jsonData.parses
       THEN Thrown(IF IncludesDot(key) /\ getNestedValue(vault, key) = Undef
                     THEN deleteNestedValue(setNestedValue(vault, key, Null), key).obj
                     ELSE vault,
                   "MalformedPayload")
     ELSE
       LET jsonValue == IF dataSource = "manual" THEN jsonData.value ELSE itemJson
       IN IF insertRefused(vault, key, mergeMode)
            THEN Thrown(vault, "KeyAlreadyExists")
            ELSE LET after == insertAssign(vault, key, mergeMode, jsonValue)
                 IN IF ~validateVaultSize(after)
                      THEN Thrown(after, "VaultSizeExceeded")
                      ELSE Returned(after,
                             [NoRes EXCEPT !.action = "inserted",
                                           !.keys = ObjectKeys(after),
                                           !.count = Len(after.props)])

\* InsertJson.node.ts execute, one item
InsertJsonExecute(slot, key, mergeMode, dataSource, jsonData, itemJson) ==
  LET vault == IF ~Truthy(slot) THEN EmptyObj ELSE slot
  IN IF Len(key) = 0 THEN Thrown(vault, "KeyInvalid")
     ELSE IF ~validateKey(key) THEN Thrown(vault, "KeyInvalid")
     ELSE IF dataSource = "manual" /\ ~jsonData.parses
       THEN Thrown(vault, "MalformedPayload")
     ELSE
       LET jsonValue == IF dataSource = "manual" THEN jsonData.value ELSE itemJson
       IN IF insertRefused(vault, key, mergeMode)
            THEN Thrown(vault, "KeyAlreadyExists")
            ELSE LET after == insertAssign(vault, key, mergeMode, jsonValue)
                 IN IF ~validateVaultSize(after)
                      THEN Thrown(after, "VaultSizeExceeded")
                      ELSE Returned(after,
                             [NoRes EXCEPT !.action = "inserted",
                                           !.keys = ObjectKeys(after),
                                           !.count = Len(after.props)])

\* Mutant of updateAssign: a stored null and a null payload are never merged.
updateAssignNullSafe(vault, key, mergeMode, existingValue, jsonValue) ==
  LET doMerge == mergeMode = "merge" /\ existingValue # Undef
                   /\ existingValue # Null /\ jsonValue # Null
                   /\ TypeOf(existingValue) = "object" /\ ~IsArray(existingValue)
                   /\ TypeOf(jsonValue) = "object" /\ ~IsArray(jsonValue)
      newValue == IF doMerge THEN deepMerge(existingValue, jsonValue) ELSE jsonValue
  IN IF IncludesDot(key) THEN setNestedValue(vault, key, newValue)
                         ELSE Put(vault, key, newValue)

\* UpdateJson.node.ts 174-186: the assignment into the vault
updateAssign(vault, key, mergeMode, existingValue, jsonValue) ==
  LET doMerge == mergeMode = "merge" /\ existingValue # Undef
                   /\ TypeOf(existingValue) = "object" /\ ~IsArray(existingValue)
                   /\ TypeOf(jsonValue) = "object" /\ ~IsArray(jsonValue)
      newValue == IF doMerge THEN deepMerge(existingValue, jsonValue) ELSE jsonValue
  IN IF IncludesDot(key) THEN setNestedValue(vault, key, newValue)
                         ELSE Put(vault, key, newValue)

\* UpdateJson.node.ts execute, one item
UpdateJsonExecute(slot, key, mergeMode, createIfNotExists, dataSource, jsonData, itemJson) ==
  LET vault == IF ~Truthy(slot) \/ TypeOf(slot) # "object" THEN EmptyObj ELSE slot
  IN IF Len(key) = 0 THEN Thrown(vault, "KeyInvalid")
     ELSE IF ~validateKey(key) THEN Thrown(vault, "KeyInvalid")
     ELSE
       LET existingValue == IF IncludesDot(key) THEN getNestedValue(vault, key)
                                                ELSE Get(vault, key)
       IN IF existingValue = Undef /\ ~createIfNotExists
            THEN Thrown(vault, "KeyNotFound")
          ELSE IF dataSource = "manual" /\ ~jsonData.parses
            THEN Thrown(vault, "MalformedPayload")
          ELSE
            LET jsonValue == IF dataSource = "manual" THEN jsonData.value ELSE itemJson
                after == updateAssign(vault, key, mergeMode, existingValue, jsonValue)
            IN IF ~validateVaultSize(after)
                 THEN Thrown(after, "VaultSizeExceeded")
                 ELSE Returned(after,
                        [NoRes EXCEPT !.action = "updated",
                                      !.existed = (existingValue # Undef)])

\* Mutant of DeleteJsonExecute: the vault is initialised only once the key
\* has passed validation and the deletion goes ahead.
DeleteJsonExecuteLateInit(slot, key, errorIfNotExists) ==
  IF Len(key) = 0 \/ ~validateKey(key) THEN Thrown(slot, "KeyInvalid")
  ELSE
    LET vault == IF ~Truthy(slot) THEN EmptyObj ELSE slot
        isNested == IncludesDot(key)
        existingValue == getNestedValue(vault, key)
        found == IF isNested THEN existingValue # Undef ELSE HasOwn(vault, key)
        del == deleteNestedValue(vault, key)
        existed == IF ~found THEN FALSE
                   ELSE IF isNested THEN del.deleted ELSE TRUE
        deletedValue == IF isNested THEN existingValue ELSE Get(vault, key)
        after == IF ~found THEN vault
                 ELSE IF isNested THEN del.obj ELSE DeleteOwn(vault, key)
    IN IF ~found /\ errorIfNotExists THEN Thrown(slot, "KeyNotFound")
       ELSE IF ~validateVaultSize(after) THEN Thrown(after, "VaultSizeExceeded")
       ELSE Returned(after,
              [NoRes EXCEPT !.action = "deleted", !.existed = existed,
                            !.value = IF existed THEN deletedValue ELSE Undef])

\* DeleteJson execute, one item
DeleteJsonExecute(slot, key, errorIfNotExists) ==
  LET vault == IF ~Truthy(slot) THEN EmptyObj ELSE slot
  IN IF Len(key) = 0 THEN Thrown(vault, "KeyInvalid")
     ELSE IF ~validateKey(key) THEN Thrown(vault, "KeyInvalid")
     ELSE
       LET isNested == IncludesDot(key)
           existingValue == getNestedValue(vault, key)
           found == IF isNested THEN existingValue # Undef ELSE HasOwn(vault, key)
           del == deleteNestedValue(vault, key)
           existed == IF ~found THEN FALSE
                      ELSE IF isNested THEN del.deleted ELSE TRUE
           deletedValue == IF isNested THEN existingValue ELSE Get(vault, key)
           after == IF ~found THEN vault
                    ELSE IF isNested THEN del.obj ELSE DeleteOwn(vault, key)
       IN IF ~found /\ errorIfNotExists THEN Thrown(vault, "KeyNotFound")
          ELSE IF ~validateVaultSize(after) THEN Thrown(after, "VaultSizeExceeded")
          ELSE Returned(after,
                 [NoRes EXCEPT !.action = "deleted", !.existed = existed,
                               !.value = IF existed THEN deletedValue ELSE Undef])

RECURSIVE clearWalk(_, _, _)
\* ClearJson.node.ts 100-116: the walk of a dotted key and the final delete;
\* a `break` leaves `current` at the container reached so far
clearWalk(current, keys, i) ==
  LET lastKey == keys[Len(keys)]
      dropLast == IF Truthy(current) /\ TypeOf(current) = "object" /\ HasOwn(current, lastKey)
                    THEN DeleteOwn(current, lastKey) ELSE current
  IN IF i > Len(keys) - 1 THEN dropLast
     ELSE LET child == Get(current, keys[i])
          IN IF ~Truthy(child) \/ TypeOf(child) # "object"
               THEN dropLast
               ELSE Put(current, keys[i], clearWalk(child, keys, i + 1))

\* ClearJson.node.ts execute, one item
ClearJsonExecute(slot, clearMode, key) ==
  LET vault == IF slot = Undef THEN EmptyObj ELSE slot
  IN IF clearMode = "all"
       THEN Returned(EmptyObj, [NoRes EXCEPT !.action = "cleared_all"])
     ELSE IF Len(key) = 0 THEN Thrown(vault, "KeyInvalid")
     ELSE LET after == IF IncludesDot(key) THEN clearWalk(vault, Split(key), 1)
                       ELSE IF HasOwn(vault, key) THEN DeleteOwn(vault, key)
                       ELSE vault
          IN Returned(after, [NoRes EXCEPT !.action = "cleared_key",
                                           !.count = Len(after.props)])

\* Mutant of JsonVaultExecute: the size of the vault is validated before the
\* action is applied instead of after it.
JsonVaultExecuteValidateFirst(slot, action) ==
  LET vault == IF ~Truthy(slot) \/ TypeOf(slot) # "object" THEN EmptyObj ELSE slot
      after == IF action = "clear" THEN EmptyObj ELSE vault
  IN IF ~validateVaultSize(vault) THEN Thrown(vault, "VaultSizeExceeded")
     ELSE Returned(after, [NoRes EXCEPT !.action = action, !.value = after])

\* JsonVault.node.ts execute
JsonVaultExecute(slot, action) ==
  LET vault == IF ~Truthy(slot) \/ TypeOf(slot) # "object" THEN EmptyObj ELSE slot
      after == IF action = "clear" THEN EmptyObj ELSE vault
  IN IF ~validateVaultSize(after) THEN Thrown(after, "VaultSizeExceeded")
     ELSE Returned(after, [NoRes EXCEPT !.action = action, !.value = after])

RECURSIVE getAllKeys(_, _)
RECURSIVE getAllKeysFrom(_, _, _)
\* Mutant of getAllKeysFrom: a key is pushed after the keys nested below it.
getAllKeysFromPostOrder(obj, prefix, i) ==
  IF i > Len(obj.props) THEN << >>
  ELSE LET key == obj.props[i].key
           val == obj.props[i].val
           fullKey == IF Len(prefix) > 0 THEN prefix \o << "." >> \o key ELSE key
           below == IF val.t # "null" /\ TypeOf(val) = "object" /\ ~IsArray(val)
                      THEN getAllKeys(val, fullKey) ELSE << >>
       IN below \o << fullKey >> \o getAllKeysFrom(obj, prefix, i + 1)

\* the for...in loop of getAllKeys from property i
getAllKeysFrom(obj, prefix, i) ==
  IF i > Len(obj.props) THEN << >>
  ELSE LET key == obj.props[i].key
           val == obj.props[i].val
           fullKey == IF Len(prefix) > 0 THEN prefix \o << "." >> \o key ELSE key
           below == IF val.t # "null" /\ TypeOf(val) = "object" /\ ~IsArray(val)
                      THEN getAllKeys(val, fullKey) ELSE << >>
       IN << fullKey >> \o below \o getAllKeysFrom(obj, prefix, i + 1)

\* ListJson.node.ts getAllKeys
getAllKeys(obj, prefix) == getAllKeysFrom(obj, prefix, 1)

\* Mutant of ListJsonExecute: with includeNested the keys-and-values format
\* lists every nested key as an entry of its own.
ListJsonExecuteNestedItems(slot, outputFormat, includeNested) ==
  IF ~Truthy(slot)
    THEN Returned(slot, [NoRes EXCEPT !.action = "list", !.value = EmptyObj])
  ELSE
    LET vault == slot
        keys == ObjectKeys(vault)
        allKeys == getAllKeys(vault, << >>)
        shown == IF includeNested THEN allKeys ELSE keys
    IN CASE outputFormat = "vault" ->
              Returned(vault, [NoRes EXCEPT !.action = "list", !.value = vault,
                                 !.count = IF includeNested THEN Len(allKeys) ELSE Len(keys)])
         [] outputFormat = "keys" ->
              Returned(vault, [NoRes EXCEPT !.action = "list",
                                 !.keys = IF includeNested THEN allKeys ELSE keys,
                                 !.count = IF includeNested THEN Len(allKeys) ELSE Len(keys)])
         [] OTHER ->
              Returned(vault, [NoRes EXCEPT !.action = "list",
                                 !.items = [i \in 1..Len(shown) |->
                                              [key |-> shown[i],
                                               value |-> getNestedValue(vault, shown[i]),
                                               isNested |-> IncludesDot(shown[i])]],
                                 !.count = Len(shown)])

\* ListJson.node.ts execute, one item
ListJsonExecute(slot, outputFormat, includeNested) ==
  IF ~Truthy(slot)
    THEN Returned(slot, [NoRes EXCEPT !.action = "list", !.value = EmptyObj])
  ELSE
    LET vault == slot
        keys == ObjectKeys(vault)
        allKeys == getAllKeys(vault, << >>)
    IN CASE outputFormat = "vault" ->
              Returned(vault, [NoRes EXCEPT !.action = "list", !.value = vault,
                                 !.count = IF includeNested THEN Len(allKeys) ELSE Len(keys)])
         [] outputFormat = "keys" ->
              Returned(vault, [NoRes EXCEPT !.action = "list",
                                 !.keys = IF includeNested THEN allKeys ELSE keys,
                                 !.count = IF includeNested THEN Len(allKeys) ELSE Len(keys)])
         [] OTHER ->
              Returned(vault, [NoRes EXCEPT !.action = "list",
                                 !.items = [i \in 1..Len(keys) |->
                                              [key |-> keys[i], value |-> Get(vault, keys[i]),
                                               isNested |-> FALSE]],
                                 !.count = Len(keys)])

\* vault-utils countVaultKeys, called for the vaultSize of Find Key's output:
\* the number of keys the vault holds at top level.
countVaultKeys(vault) == Len(vault.props)

\* Mutant of FindKeyExecute: a top-level key that is not found is stored
\* with the null that is reported for it.
FindKeyExecuteStoresNull(slot, key, errorIfNotExists) ==
  IF slot = Undef \/ TypeOf(slot) # "object" \/ slot = Null
    THEN IF errorIfNotExists /\ Len(key) > 0
           THEN Thrown(slot, "KeyNotFound")
           ELSE Returned(slot, [NoRes EXCEPT !.action = "find", !.value = Null])
  ELSE
    LET vault == slot
    IN IF Len(key) = 0 THEN Thrown(vault, "KeyInvalid")
       ELSE IF ~validateKey(key) THEN Thrown(vault, "KeyInvalid")
       ELSE LET looked == IF IncludesDot(key) THEN getNestedValue(vault, key)
                                              ELSE Get(vault, key)
                foundValue == IF looked = Undef THEN Null ELSE looked
            IN IF looked = Undef /\ errorIfNotExists
                 THEN Thrown(vault, "KeyNotFound")
                 ELSE Returned(IF looked = Undef /\ ~IncludesDot(key)
                                 THEN Put(vault, key, Null) ELSE vault,
                        [NoRes EXCEPT !.action = "find",
                                      !.existed = (foundValue # Null /\ foundValue # Undef),
                                      !.value = foundValue,
                                      !.count = countVaultKeys(vault)])

\* FindKey.node.ts execute, one item
FindKeyExecute(slot, key, errorIfNotExists) ==
  IF slot = Undef \/ TypeOf(slot) # "object" \/ slot = Null
    THEN IF errorIfNotExists /\ Len(key) > 0
           THEN Thrown(slot, "KeyNotFound")
           ELSE Returned(slot, [NoRes EXCEPT !.action = "find", !.value = Null])
  ELSE
    LET vault == slot
    IN IF Len(key) = 0 THEN Thrown(vault, "KeyInvalid")
       ELSE IF ~validateKey(key) THEN Thrown(vault, "KeyInvalid")
       ELSE LET looked == IF IncludesDot(key) THEN getNestedValue(vault, key)
                                              ELSE Get(vault, key)
                foundValue == IF looked = Undef THEN Null ELSE looked
            IN IF looked = Undef /\ errorIfNotExists
                 THEN Thrown(vault, "KeyNotFound")
                 ELSE Returned(vault,
                        [NoRes EXCEPT !.action = "find",
                                      !.existed = (foundValue # Null /\ foundValue # Undef),
                                      !.value = foundValue,
                                      !.count = countVaultKeys(vault)])

(***************************************************************************)
(* The workflow: nodes are executed one after the other on the shared      *)
(* static data.  `pre`, `op` and `res` record the slot before the last     *)
(* execution, its parameters and its outcome.                              *)
(***************************************************************************)
VARIABLES jsonVault, pre, op, res, nops

vars == << jsonVault, pre, op, res, nops >>

\* Number of node executions in one run of the workflow.
MaxOps == 3

NoOp ==
  [node |-> "none", key |-> << >>, mergeMode |-> "replace", createIfNotExists |-> FALSE,
   errorIfNotExists |-> FALSE, clearMode |-> "all", action |-> "init",
   outputFormat |-> "full", includeNested |-> FALSE,
   dataSource |-> "manual", jsonData |-> BadText, itemJson |-> EmptyObj]

\* The payload of a write: typed-in JSON text, or the JSON of the input item.
Manual(text) == [dataSource |-> "manual", jsonData |-> text, itemJson |-> EmptyObj]
FromInput(json) == [dataSource |-> "input", jsonData |-> BadText, itemJson |-> json]

Init ==
  /\ jsonVault = Undef
  /\ pre = Undef
  /\ op = NoOp
  /\ res = NoRes
  /\ nops = 0

Step(r, o) ==
  /\ nops < MaxOps
  /\ jsonVault' = r.vault
  /\ res' = r.res
  /\ pre' = jsonVault
  /\ op' = o
  /\ nops' = nops + 1

InsertJson(K, S) ==
  \E key \in K, mergeMode \in {"replace", "merge"}, src \in S :
    Step(InsertJsonExecute(jsonVault, key, mergeMode, src.dataSource, src.jsonData, src.itemJson),
         [NoOp EXCEPT !.node = "insertJson", !.key = key, !.mergeMode = mergeMode,
                      !.dataSource = src.dataSource, !.jsonData = src.jsonData,
                      !.itemJson = src.itemJson])

UpdateJson(K, S) ==
  \E key \in K, mergeMode \in {"replace", "merge"}, createIfNotExists \in BOOLEAN, src \in S :
    Step(UpdateJsonExecute(jsonVault, key, mergeMode, createIfNotExists,
                           src.dataSource, src.jsonData, src.itemJson),
         [NoOp EXCEPT !.node = "updateJson", !.key = key, !.mergeMode = mergeMode,
                      !.createIfNotExists = createIfNotExists,
                      !.dataSource = src.dataSource, !.jsonData = src.jsonData,
                      !.itemJson = src.itemJson])

DeleteJson(K) ==
  \E key \in K, errorIfNotExists \in BOOLEAN :
    Step(DeleteJsonExecute(jsonVault, key, errorIfNotExists),
         [NoOp EXCEPT !.node = "deleteJson", !.key = key,
                      !.errorIfNotExists = errorIfNotExists])

ClearJson(K) ==
  \/ Step(ClearJsonExecute(jsonVault, "all", << >>),
          [NoOp EXCEPT !.node = "clearJson", !.clearMode = "all"])
  \/ \E key \in K :
       Step(ClearJsonExecute(jsonVault, "key", key),
            [NoOp EXCEPT !.node = "clearJson", !.clearMode = "key", !.key = key])

JsonVault ==
  \E action \in {"init", "clear"} :
    Step(JsonVaultExecute(jsonVault, action),
         [NoOp EXCEPT !.node = "jsonVault", !.action = action])

ListJson ==
  \E outputFormat \in {"keys", "full", "vault"}, includeNested \in BOOLEAN :
    Step(ListJsonExecute(jsonVault, outputFormat, includeNested),
         [NoOp EXCEPT !.node = "listJson", !.outputFormat = outputFormat,
                      !.includeNested = includeNested])

FindKey(K) ==
  \E key \in K, errorIfNotExists \in BOOLEAN :
    Step(FindKeyExecute(jsonVault, key, errorIfNotExists),
         [NoOp EXCEPT !.node = "findKey", !.key = key,
                      !.errorIfNotExists = errorIfNotExists])

(***************************************************************************)
(* Inputs of the workflow runs explored.                                   *)
(***************************************************************************)
kA == << "a" >>
kB == << "b" >>
kC == << "c" >>
kD == << "d" >>
kAB == << "a", ".", "b" >>
kValueOf == << "v","a","l","u","e","O","f" >>
kAValueOf == << "a", ".", "v","a","l","u","e","O","f" >>
kNone == << >>
kSpace == << "a", " " >>

vOne == Num(1)
vHi == Str(<< "h", "i" >>, 0)
vList == Arr(<< Num(1) >>, << >>)
vB1 == Obj(<< Entry(kB, Num(1)) >>)
vCD == Obj(<< Entry(kC, Obj(<< Entry(kD, Bool(TRUE)) >>)) >>)
\* a string that alone is longer than the size limit
vHuge == Str(<< >>, MAX_VAULT_SIZE)

Texts(V) == { Manual(JsonText(v)) : v \in V }

\* Runs over top-level and dotted keys, valid and invalid, with small payloads.
CoreKeys == { kA, kB, kAB, kNone, kSpace }
CoreSources == Texts({ vOne, Null, vList, vB1 }) \cup { Manual(BadText), FromInput(vCD) }

Next ==
  \/ InsertJson(CoreKeys, CoreSources)
  \/ UpdateJson(CoreKeys, CoreSources)
  \/ DeleteJson(CoreKeys)
  \/ ClearJson(CoreKeys)
  \/ JsonVault
  \/ ListJson
  \/ FindKey(CoreKeys)

Spec == Init /\ [][Next]_vars

\* Runs whose payloads can push the vault over the size limit.
SizeKeys == { kA, kB, kAB }
SizeSources == Texts({ vOne, vHuge })

NextSize ==
  \/ InsertJson(SizeKeys, SizeSources)
  \/ UpdateJson(SizeKeys, SizeSources)
  \/ DeleteJson(SizeKeys)
  \/ ClearJson(SizeKeys)
  \/ JsonVault
  \/ ListJson
  \/ FindKey(SizeKeys)

SpecSize == Init /\ [][NextSize]_vars

\* Runs over keys that name a property every object inherits.
ProtoKeys == { kA, kValueOf, kAValueOf }
ProtoSources == Texts({ vOne, vB1 })

NextProto ==
  \/ InsertJson(ProtoKeys, ProtoSources)
  \/ UpdateJson(ProtoKeys, ProtoSources)
  \/ DeleteJson(ProtoKeys)
  \/ ClearJson(ProtoKeys)
  \/ JsonVault
  \/ ListJson
  \/ FindKey(ProtoKeys)

SpecProto == Init /\ [][NextProto]_vars

(***************************************************************************)
(* The vocabulary of the specification.  A Document is a mapping: the      *)
(* order of keys is irrelevant, so Documents are compared as functions     *)
(* from keys to values.  resolve / ensureAndSet / remove / merge are the   *)
(* operations of the specification's sections 4.1 and 4.2 on such mappings.*)
(***************************************************************************)
RECURSIVE AsMapping(_)
AsMapping(v) ==
  CASE v.t = "object" ->
         [t |-> "object",
          m |-> [k \in {v.props[i].key : i \in 1..Len(v.props)} |-> AsMapping(Get(v, k))]]
    [] v.t = "array" ->
         [t |-> "array",
          elems |-> [i \in 1..Len(v.elems) |-> AsMapping(v.elems[i])],
          m |-> [k \in {v.props[i].key : i \in 1..Len(v.props)} |-> AsMapping(Get(v, k))]]
    [] OTHER -> v

\* The Document held by a slot (an absent slot is the empty Document).
Document(slot) == AsMapping(IF slot = Undef THEN EmptyObj ELSE slot)

NOT_FOUND == [t |-> "NOT_FOUND"]
EmptyMapping == [t |-> "object", m |-> << >>]
IsMapping(c) == c.t = "object"

RECURSIVE resolveFrom(_, _, _)
resolveFrom(c, path, i) ==
  IF i > Len(path) THEN c
  ELSE IF IsMapping(c) /\ path[i] \in DOMAIN c.m THEN resolveFrom(c.m[path[i]], path, i + 1)
  ELSE NOT_FOUND

\* resolve(doc, path) -> value | NOT_FOUND
resolve(doc, path) == resolveFrom(doc, path, 1)

MapPut(c, k, val) ==
  [t |-> "object", m |-> [x \in (DOMAIN c.m) \cup {k} |-> IF x = k THEN val ELSE c.m[x]]]

MapDrop(c, k) ==
  [t |-> "object", m |-> [x \in (DOMAIN c.m) \ {k} |-> c.m[x]]]

RECURSIVE ensureAndSetFrom(_, _, _, _)
ensureAndSetFrom(c, path, i, val) ==
  IF i = Len(path) THEN MapPut(c, path[i], val)
  ELSE LET child == IF path[i] \in DOMAIN c.m /\ IsMapping(c.m[path[i]])
                      THEN c.m[path[i]] ELSE EmptyMapping
       IN MapPut(c, path[i], ensureAndSetFrom(child, path, i + 1, val))

\* ensureAndSet(doc, path, value): the Document afterwards
ensureAndSet(doc, path, val) == ensureAndSetFrom(doc, path, 1, val)

RECURSIVE removeFrom(_, _, _)
removeFrom(c, path, i) ==
  IF i = Len(path) THEN MapDrop(c, path[i])
  ELSE IF path[i] \in DOMAIN c.m /\ IsMapping(c.m[path[i]])
    THEN MapPut(c, path[i], removeFrom(c.m[path[i]], path, i + 1))
  ELSE c

\* remove(doc, path): the Document afterwards
remove(doc, path) == removeFrom(doc, path, 1)

RECURSIVE merge(_, _)
\* merge(target, source) of two mappings
merge(target, source) ==
  [t |-> "object",
   m |-> [k \in (DOMAIN target.m) \cup (DOMAIN source.m) |->
            IF k \notin DOMAIN source.m THEN target.m[k]
            ELSE IF IsMapping(source.m[k]) /\ k \in DOMAIN target.m /\ IsMapping(target.m[k])
              THEN merge(target.m[k], source.m[k])
            ELSE source.m[k]]]

\* What the last execution was given.
Path == Split(op.key)
ValidKey == validateKey(op.key)
HasPayload == op.dataSource = "input" \/ op.jsonData.parses
Payload == AsMapping(IF op.dataSource = "manual" THEN op.jsonData.value ELSE op.itemJson)
Before == Document(pre)
After == Document(jsonVault)
Unchanged == After = Before
IsInsert == op.node = "insertJson"
IsUpdate == op.node = "updateJson"
IsDelete == op.node = "deleteJson"
IsClearAll == op.node = "clearJson" /\ op.clearMode = "all"
IsClearKey == op.node = "clearJson" /\ op.clearMode = "key"

\* Runs of the README's deep merge example.
kP == << "p" >>
kUP == << "u", ".", "p" >>
kName == << "n","a","m","e" >>
kAge == << "a","g","e" >>
kSettings == << "s","e","t","t","i","n","g","s" >>
kTheme == << "t","h","e","m","e" >>
kNotifications == << "n","o","t","i","f","i","c","a","t","i","o","n","s" >>
vJohn == Str(<< "J","o","h","n" >>, 0)
vLight == Str(<< "l","i","g","h","t" >>, 0)
ExExisting ==
  Obj(<< Entry(kName, vJohn), Entry(kAge, Num(30)),
         Entry(kSettings, Obj(<< Entry(kTheme, vLight) >>)) >>)
ExUpdate ==
  Obj(<< Entry(kAge, Num(31)),
         Entry(kSettings, Obj(<< Entry(kNotifications, Bool(TRUE)) >>)) >>)
ExResult ==
  Obj(<< Entry(kName, vJohn), Entry(kAge, Num(31)),
         Entry(kSettings, Obj(<< Entry(kTheme, vLight),
                                 Entry(kNotifications, Bool(TRUE)) >>)) >>)

MergeKeys == { kP, kUP }
MergeSources == Texts({ ExExisting, ExUpdate, Null, vOne })

NextMerge ==
  \/ InsertJson(MergeKeys, MergeSources)
  \/ UpdateJson(MergeKeys, MergeSources)
  \/ DeleteJson(MergeKeys)
  \/ ClearJson(MergeKeys)
  \/ JsonVault
  \/ ListJson
  \/ FindKey(MergeKeys)

SpecMerge == Init /\ [][NextMerge]_vars

(***************************************************************************)
(* Claims.                                                                 *)
(***************************************************************************)

\* C1: an Insert or Update that succeeds leaves a Document within the size
\* cap, and one that fails with VaultSizeExceeded leaves the Document equal
\* to the Document before the operation.
C1_SizeFailureRestores ==
  (IsInsert \/ IsUpdate) =>
     /\ res.success => JsonLen(IF jsonVault = Undef THEN EmptyObj ELSE jsonVault) <= MAX_VAULT_SIZE
     /\ res.error = "VaultSizeExceeded" => Unchanged

\* C2: at every operation boundary the serialized length of the Document is
\* at most the size cap.
C2_NeverOverCap ==
  jsonVault # Undef => JsonLen(jsonVault) <= MAX_VAULT_SIZE

\* The Document the operation's contract (section 4.3) leaves when it applies.
ContractValue ==
  IF op.mergeMode = "merge" /\ IsMapping(resolve(Before, Path)) /\ IsMapping(Payload)
    THEN merge(resolve(Before, Path), Payload)
    ELSE Payload
ContractPost ==
  CASE IsInsert \/ IsUpdate ->
         IF ValidKey /\ HasPayload THEN ensureAndSet(Before, Path, ContractValue) ELSE Before
    [] IsDelete \/ IsClearKey -> IF ValidKey THEN remove(Before, Path) ELSE Before
    [] IsClearAll -> EmptyMapping
    [] OTHER -> Before

\* C3: after a mutating operation (Insert, Update, Delete, Clear-All,
\* Clear-key), successful or not, the Document is either the pre-operation
\* Document or the fully applied post-operation Document.
C3_PreOrFullyApplied ==
  (IsInsert \/ IsUpdate \/ IsDelete \/ IsClearAll \/ IsClearKey) =>
     (After = Before \/ After = ContractPost)

C5_ReplaceOnAbsentSucceeds ==
  (IsInsert /\ op.mergeMode = "replace") =>
     /\ res.error = "KeyAlreadyExists" => resolve(Before, Path) # NOT_FOUND
     /\ (ValidKey /\ HasPayload /\ resolve(Before, Path) = NOT_FOUND) =>
          /\ res.success \/ res.error = "VaultSizeExceeded"
          /\ res.success => resolve(After, Path) = Payload

\* C6: Update on a valid key whose path resolves to NOT_FOUND fails with
\* KeyNotFound and leaves the Document unchanged when createIfNotExists is
\* false; when it is true (and a payload is given that fits the size cap) it
\* creates the path with the given value and reports existed = false.
C6_UpdateOnAbsent ==
  (IsUpdate /\ ValidKey /\ resolve(Before, Path) = NOT_FOUND) =>
     IF ~op.createIfNotExists
       THEN res.error = "KeyNotFound" /\ Unchanged
       ELSE HasPayload =>
              /\ res.success \/ res.error = "VaultSizeExceeded"
              /\ res.success => (~res.existed /\ resolve(After, Path) = Payload)

RECURSIVE MergedAs(_, _, _)
\* r is the recursive merge of source s into target t, as far as the claim
\* determines it: keys only in t keep their value, keys of s with a
\* non-mapping value take it, keys that are mappings on both sides are merged
\* by the same rule, and r has no other keys.
MergedAs(t, s, r) ==
  /\ IsMapping(r)
  /\ DOMAIN r.m = (DOMAIN t.m) \cup (DOMAIN s.m)
  /\ \A k \in DOMAIN r.m :
       IF k \notin DOMAIN s.m THEN r.m[k] = t.m[k]
       ELSE IF ~IsMapping(s.m[k]) THEN r.m[k] = s.m[k]
       ELSE IF k \in DOMAIN t.m /\ IsMapping(t.m[k]) THEN MergedAs(t.m[k], s.m[k], r.m[k])
       ELSE TRUE

C8_MergeFallsBackToReplace ==
  ((IsInsert \/ IsUpdate) /\ op.mergeMode = "merge" /\ ValidKey /\ HasPayload
     /\ resolve(Before, Path) # NOT_FOUND
     /\ (~IsMapping(resolve(Before, Path)) \/ ~IsMapping(Payload))) =>
     resolve(After, Path) = Payload

\* C9: Delete on a valid key whose path does not resolve leaves the Document
\* unchanged, and succeeds with existed = false when errorIfNotExists is
\* false, raises KeyNotFound when it is true.
C9_DeleteOnAbsent ==
  (IsDelete /\ ValidKey /\ resolve(Before, Path) = NOT_FOUND) =>
     /\ Unchanged
     /\ IF op.errorIfNotExists THEN res.error = "KeyNotFound"
                               ELSE res.success /\ ~res.existed

\* C10: Delete on a valid key whose path resolves to a stored value returns
\* existed = true with the value held before, and afterwards the key
\* resolves to NOT_FOUND while the rest of the Document is as before.
C10_DeleteOnExisting ==
  (IsDelete /\ ValidKey /\ resolve(Before, Path) # NOT_FOUND) =>
     /\ res.success /\ res.existed
     /\ AsMapping(res.value) = resolve(Before, Path)
     /\ resolve(After, Path) = NOT_FOUND
     /\ After = remove(Before, Path)

\* The slot's content as a vault object (an absent slot reads as {}).
VaultOf(slot) == IF slot = Undef THEN EmptyObj ELSE slot

\* Every proper prefix of the last operation's path resolved to a mapping
\* before the operation.
ParentsAreMappings ==
  \A i \in 1..(Len(Path) - 1) : IsMapping(resolve(Before, SubSeq(Path, 1, i)))

IsVaultClear == op.node = "jsonVault" /\ op.action = "clear"

\* C12: Clear-All, through Clear JSON in 'all' mode or through the JSON
\* Vault node's 'clear' action, never fails and leaves the empty Document
\* whatever the Document held before; applied once more, by either node, it
\* succeeds again and the Document is still empty.
C12_ClearAllEmpties ==
  (IsClearAll \/ IsVaultClear) =>
     /\ res.success /\ After = EmptyMapping
     /\ LET again == { ClearJsonExecute(jsonVault, "all", << >>),
                       JsonVaultExecute(jsonVault, "clear") }
        IN \A r \in again : r.res.success /\ Document(r.vault) = EmptyMapping

\* C12 witness: the JSON Vault node's clear emptied a vault that was over
\* the size limit.
C12_Witness ==
  /\ IsVaultClear /\ res.success
  /\ pre # Undef /\ ~validateVaultSize(pre)
  /\ jsonVault = EmptyObj

\* C13: Clear in key mode with a valid key succeeds and removes exactly the
\* addressed path when it is present; when the path is absent (an
\* intermediate segment is absent or not an object, or the last segment is
\* absent in its parent) the whole Document is unchanged.
C13_ClearKeyRemovesExactly ==
  (IsClearKey /\ ValidKey) =>
     /\ res.success
     /\ After = remove(Before, Path)
     /\ resolve(Before, Path) = NOT_FOUND => Unchanged

\* C14: Clear in key mode with an empty key, or a key holding a character
\* outside ASCII letters, digits, '.', '-' and '_', fails with KeyInvalid and
\* leaves the Document unchanged.
C14_ClearKeyValidatesKey ==
  (IsClearKey /\ ~ValidKey) => (res.error = "KeyInvalid" /\ Unchanged)

IsList == op.node = "listJson"
IsFind == op.node = "findKey"

\* C15: List (every output format, with or without nested keys) and Find
\* (key found or not, with or without errorIfNotExists, returning or
\* raising) leave the Document as it was: the slot is not touched at all.
C15_ReadsDoNotMutate ==
  (IsList \/ IsFind) => (Unchanged /\ jsonVault = pre)

\* C15 witness: a Find that raised KeyNotFound for a top-level key, on a
\* vault that holds a nested value, left the slot as it was.
C15_Witness ==
  /\ IsFind /\ op.key = kB /\ res.error = "KeyNotFound"
  /\ pre # Undef /\ resolve(Before, Split(kAB)) # NOT_FOUND
  /\ jsonVault = pre

\* Runs of the nested listing example: a value stored three levels deep, and
\* arrays, null and scalars as values.
kUsers == << "u","s","e","r","s" >>
kAdmin == << "a","d","m","i","n" >>
kUAS == kUsers \o << "." >> \o kAdmin \o << "." >> \o kSettings
vDark == Str(<< "d","a","r","k" >>, 0)
vThemeDark == Obj(<< Entry(kTheme, vDark) >>)
vListOfObj == Arr(<< vB1 >>, << >>)

ListKeys == { kUAS, kA, kAB }
ListSources == Texts({ vThemeDark, vListOfObj, Null })

NextList ==
  \/ InsertJson(ListKeys, ListSources)
  \/ UpdateJson(ListKeys, ListSources)
  \/ DeleteJson(ListKeys)
  \/ ClearJson(ListKeys)
  \/ JsonVault
  \/ ListJson
  \/ FindKey(ListKeys)

SpecList == Init /\ [][NextList]_vars

\* The dotted path of key k below the path prefix.
Dotted(prefix, k) == IF Len(prefix) > 0 THEN prefix \o << "." >> \o k ELSE k

RECURSIVE DottedPaths(_, _)
\* The dotted paths of every key at every level of mapping c, descending
\* into mappings only.
DottedPaths(c, prefix) ==
  UNION { {Dotted(prefix, k)} \cup
            (IF IsMapping(c.m[k]) THEN DottedPaths(c.m[k], Dotted(prefix, k)) ELSE {})
          : k \in DOMAIN c.m }

\* q is the dotted path of a key nested (at any depth) below the key at p.
IsBelow(q, p) == Len(q) > Len(p) + 1 /\ SubSeq(q, 1, Len(p) + 1) = p \o << "." >>

\* keys lists the dotted paths of doc, each once, in depth-first pre-order:
\* the paths below a key follow it immediately.
IsPreOrderListing(keys, doc) ==
  /\ { keys[i] : i \in 1..Len(keys) } = DottedPaths(doc, << >>)
  /\ \A i, j \in 1..Len(keys) : i # j => keys[i] # keys[j]
  /\ \A i \in 1..Len(keys) :
       LET below == { j \in 1..Len(keys) : IsBelow(keys[j], keys[i]) }
       IN below = (i + 1)..(i + Cardinality(below))

ExListDoc ==
  Obj(<< Entry(kUsers, Obj(<< Entry(kAdmin, Obj(<< Entry(kSettings, vThemeDark) >>)) >>)) >>)
ExListKeys ==
  << kUsers, Dotted(kUsers, kAdmin), kUAS, Dotted(kUAS, kTheme) >>

C17_ListFullIsTopLevel ==
  (IsList /\ op.outputFormat = "full") =>
     /\ res.success
     /\ res.count = Len(res.items)
     /\ Len(res.items) = Cardinality(DOMAIN After.m)
     /\ { res.items[i].key : i \in 1..Len(res.items) } = DOMAIN After.m
     /\ \A i \in 1..Len(res.items) :
          /\ AsMapping(res.items[i].value) = After.m[res.items[i].key]
          /\ res.items[i].isNested = FALSE
     /\ ListJsonExecute(pre, "full", ~op.includeNested).res = res

\* C17 witness: a full listing, with includeNested, of a vault holding a
\* three-level object and a second top-level key: two entries.
C17_Witness ==
  /\ IsList /\ op.outputFormat = "full" /\ op.includeNested
  /\ resolve(After, Split(kUAS)) = AsMapping(vThemeDark)
  /\ Len(res.items) = 2
  /\ \E i \in 1..2 : res.items[i].key = kUsers /\ res.items[i].value = ExListDoc.props[1].val

\* The key grammar as the specification words it.
AsciiLetters ==
  { "a","b","c","d","e","f","g","h","i","j","k","l","m","n","o","p","q","r","s","t","u",
    "v","w","x","y","z","A","B","C","D","E","F","G","H","I","J","K","L","M","N","O","P",
    "Q","R","S","T","U","V","W","X","Y","Z" }
AsciiDigits == { "0","1","2","3","4","5","6","7","8","9" }
AcceptedKey(k) ==
  Len(k) > 0 /\ \A i \in 1..Len(k) : k[i] \in AsciiLetters \cup AsciiDigits \cup { ".", "-", "_" }

\* Keys with empty segments, and keys the grammar excludes.
kADotDotB == << "a", ".", ".", "b" >>
kDotA == << ".", "a" >>
kADot == << "a", "." >>
kBracket == << "a", "[", "0", "]" >>
GrammarKeys ==
  CoreKeys \cup ProtoKeys \cup MergeKeys \cup { kADotDotB, kDotA, kADot, kBracket, kUAS }

\* C18: the key validator accepts a key exactly when it is non-empty and
\* made of ASCII letters, digits, '.', '-' and '_' only (so it accepts
\* 'a..b', '.a' and 'a.'), and Insert, Update, Delete and Find fail with
\* KeyInvalid on every key it rejects.
C18_KeyGrammar ==
  /\ \A k \in GrammarKeys : validateKey(k) <=> AcceptedKey(k)
  /\ validateKey(kADotDotB) /\ validateKey(kDotA) /\ validateKey(kADot)
  /\ (op.node \in {"insertJson", "updateJson", "deleteJson", "findKey"} /\ ~validateKey(op.key))
       => res.error = "KeyInvalid"

\* C19: an Insert, Update or Delete that fails with KeyInvalid, and an Insert
\* or Update that fails with MalformedPayload, leaves the Document exactly
\* as it was: nothing is written, no intermediate container is created.
C19_ValidationBeforeMutation ==
  (\/ (IsInsert \/ IsUpdate \/ IsDelete) /\ res.error = "KeyInvalid"
   \/ (IsInsert \/ IsUpdate) /\ res.error = "MalformedPayload") =>
     /\ Unchanged
     /\ jsonVault = VaultOf(pre)

\* C19 witness: an Insert at a dotted key whose parent is absent failed with
\* MalformedPayload on a vault that holds another key, and no container was
\* created for the parent.
C19_Witness ==
  /\ IsInsert /\ op.key = kAB /\ res.error = "MalformedPayload"
  /\ resolve(Before, << kB >>) # NOT_FOUND
  /\ resolve(Before, << kA >>) = NOT_FOUND
  /\ resolve(After, << kA >>) = NOT_FOUND

\* C20: Delete fails only with KeyInvalid or, when errorIfNotExists is set,
\* with KeyNotFound: in every reachable state a Delete with a valid key that
\* resolves succeeds, and so does a Delete with a valid key and
\* errorIfNotExists = false.
C20_DeleteFailsOnlyOnKey ==
  IsDelete =>
     /\ res.success \/ res.error \in {"KeyInvalid", "KeyNotFound"}
     /\ res.error = "KeyNotFound" => op.errorIfNotExists
     /\ (ValidKey /\ (~op.errorIfNotExists \/ resolve(Before, Path) # NOT_FOUND))
          => res.success

(***************************************************************************)
(* Batches.  An execution receives a list of input items; the parameters   *)
(* are evaluated per item.  The loop of `execute` runs the body above on   *)
(* each item in turn, on the same static data; its catch block either      *)
(* records the failure and continues (continueOnFail) or rethrows.  In a   *)
(* batch state, op is [node, items, continueOnFail] and res is             *)
(* [raised, error, records]: the error thrown out of execute, or the       *)
(* output items returned.                                                  *)
(***************************************************************************)
\* Largest number of input items of one execution.
MaxBatch == 2

\* The body of the loop for one item, its parameters in o.
ExecItem(slot, o) ==
  CASE o.node = "insertJson" ->
         InsertJsonExecute(slot, o.key, o.mergeMode, o.dataSource, o.jsonData, o.itemJson)
    [] o.node = "updateJson" ->
         UpdateJsonExecute(slot, o.key, o.mergeMode, o.createIfNotExists,
                           o.dataSource, o.jsonData, o.itemJson)
    [] o.node = "deleteJson" -> DeleteJsonExecute(slot, o.key, o.errorIfNotExists)
    [] o.node = "clearJson" -> ClearJsonExecute(slot, o.clearMode, o.key)
    [] o.node = "listJson" -> ListJsonExecute(slot, o.outputFormat, o.includeNested)
    [] o.node = "findKey" -> FindKeyExecute(slot, o.key, o.errorIfNotExists)

BatchRaised(vault, kind) ==
  [vault |-> vault, res |-> [raised |-> TRUE, error |-> kind, records |-> << >>]]

BatchReturned(vault, returnData) ==
  [vault |-> vault, res |-> [raised |-> FALSE, error |-> "none", records |-> returnData]]

RECURSIVE runLoop(_, _, _, _, _)
\* for (itemIndex ...) { try { ... } catch { continueOnFail ? push, continue : throw } }
runLoop(slot, items, i, continueOnFail, returnData) ==
  IF i > Len(items) THEN BatchReturned(slot, returnData)
  ELSE LET r == ExecItem(slot, items[i])
       IN IF r.res.success
            THEN runLoop(r.vault, items, i + 1, continueOnFail, Append(returnData, r.res))
          ELSE IF continueOnFail
            THEN runLoop(r.vault, items, i + 1, continueOnFail, Append(returnData, r.res))
          ELSE BatchRaised(r.vault, r.res.error)

RECURSIVE findAbsentLoop(_, _, _, _)
\* FindKey.node.ts 55-95: the loop run when there is no vault; it has no
\* try/catch, so its throw leaves execute whatever continueOnFail is.
findAbsentLoop(slot, items, i, returnData) ==
  IF i > Len(items) THEN BatchReturned(slot, returnData)
  ELSE IF items[i].errorIfNotExists /\ Len(items[i].key) > 0
    THEN BatchRaised(slot, "KeyNotFound")
  ELSE findAbsentLoop(slot, items, i + 1,
                      Append(returnData, [NoRes EXCEPT !.action = "find", !.value = Null]))

\* execute of a node on a batch of items
ExecuteBatch(node, slot, items, continueOnFail) ==
  CASE node = "findKey" /\ (slot = Undef \/ TypeOf(slot) # "object" \/ slot = Null) ->
         findAbsentLoop(slot, items, 1, << >>)
    [] node = "listJson" /\ ~Truthy(slot) ->
         \* ListJson.node.ts 89-102: one output item, whatever the input
         BatchReturned(slot, << [NoRes EXCEPT !.action = "list", !.value = EmptyObj] >>)
    [] OTHER -> runLoop(slot, items, 1, continueOnFail, << >>)

\* The batches of 1..MaxBatch items drawn from I.
Batches(I) == UNION { [1..n -> I] : n \in 1..MaxBatch }

BatchOp(node, items, continueOnFail) ==
  [node |-> node, items |-> items, continueOnFail |-> continueOnFail]

\* execute of a node on some batch of items of I, with or without continueOnFail
Batch(node, I) ==
  \E items \in Batches(I), continueOnFail \in BOOLEAN :
    Step(ExecuteBatch(node, jsonVault, items, continueOnFail),
         BatchOp(node, items, continueOnFail))

Item(node) == [NoOp EXCEPT !.node = node]
WithSource(o, src) ==
  [o EXCEPT !.dataSource = src.dataSource, !.jsonData = src.jsonData, !.itemJson = src.itemJson]

InsertItems ==
  { WithSource([Item("insertJson") EXCEPT !.key = kA], Manual(JsonText(vOne))),
    WithSource([Item("insertJson") EXCEPT !.key = kAB, !.mergeMode = "merge"],
               Manual(JsonText(vOne))),
    WithSource([Item("insertJson") EXCEPT !.key = kB], Manual(BadText)) }
UpdateItems ==
  { WithSource([Item("updateJson") EXCEPT !.key = kA], Manual(JsonText(vOne))),
    WithSource([Item("updateJson") EXCEPT !.key = kAB, !.createIfNotExists = TRUE],
               Manual(JsonText(vOne))),
    WithSource([Item("updateJson") EXCEPT !.key = kB, !.createIfNotExists = TRUE],
               Manual(BadText)) }
DeleteItems ==
  { [Item("deleteJson") EXCEPT !.key = kA, !.errorIfNotExists = TRUE],
    [Item("deleteJson") EXCEPT !.key = kAB],
    [Item("deleteJson") EXCEPT !.key = kSpace] }
ClearItems ==
  { Item("clearJson"),
    [Item("clearJson") EXCEPT !.clearMode = "key", !.key = kA],
    [Item("clearJson") EXCEPT !.clearMode = "key", !.key = kNone] }
ListItems ==
  { [Item("listJson") EXCEPT !.outputFormat = f, !.includeNested = TRUE]
      : f \in {"keys", "full", "vault"} }
FindItems ==
  { [Item("findKey") EXCEPT !.key = kA, !.errorIfNotExists = TRUE],
    [Item("findKey") EXCEPT !.key = kAB],
    [Item("findKey") EXCEPT !.key = kSpace] }

InsertJsonBatch == Batch("insertJson", InsertItems)
UpdateJsonBatch == Batch("updateJson", UpdateItems)
DeleteJsonBatch == Batch("deleteJson", DeleteItems)
ClearJsonBatch == Batch("clearJson", ClearItems)
ListJsonBatch == Batch("listJson", ListItems)
FindKeyBatch == Batch("findKey", FindItems)

NextBatch ==
  \/ InsertJsonBatch
  \/ UpdateJsonBatch
  \/ DeleteJsonBatch
  \/ ClearJsonBatch
  \/ ListJsonBatch
  \/ FindKeyBatch

SpecBatch == Init /\ [][NextBatch]_vars

RECURSIVE VaultAfter(_, _, _)
\* The slot after the first k items were applied one after the other.
VaultAfter(slot, items, k) ==
  IF k = 0 THEN slot ELSE ExecItem(VaultAfter(slot, items, k - 1), items[k]).vault

\* The outcome of item k applied after the items before it.
OutcomeOf(slot, items, k) == ExecItem(VaultAfter(slot, items, k - 1), items[k]).res

IsBatch == op.node # "none"

\* C21: a batch of N inputs is processed in input order on the same
\* Document.  With continue-on-fail the execution returns exactly N records
\* in input order, record k being the outcome of input k (success = false
\* when it failed), and every input is applied.  Without it the first
\* failing input raises its error and no later input is applied; when no
\* input fails the N records are returned.
C21_BatchOrder ==
  IsBatch =>
    LET N == Len(op.items)
        failing == { k \in 1..N : ~OutcomeOf(pre, op.items, k).success }
        first == CHOOSE k \in failing : \A m \in failing : k <= m
    IN IF op.continueOnFail
         THEN /\ ~res.raised
              /\ Len(res.records) = N
              /\ \A k \in 1..N : res.records[k] = OutcomeOf(pre, op.items, k)
              /\ Document(jsonVault) = Document(VaultAfter(pre, op.items, N))
       ELSE IF failing = {}
         THEN /\ ~res.raised
              /\ Document(jsonVault) = Document(VaultAfter(pre, op.items, N))
         ELSE /\ res.raised
              /\ res.error = OutcomeOf(pre, op.items, first).error
              /\ Document(jsonVault) = Document(VaultAfter(pre, op.items, first))

(***************************************************************************)
(* The routines of vault-utils.ts on their own.  The initial state holds   *)
(* the arguments of one call in op; the call is made by the action of the  *)
(* routine, which leaves in res the object as it is after the call (obj)   *)
(* and the value returned (value).                                         *)
(***************************************************************************)
kA0 == << "a", ".", "0" >>
kABC == << "a", ".", "b", ".", "c" >>
vBNull == Obj(<< Entry(kB, Null) >>)
vBC1 == Obj(<< Entry(kB, Obj(<< Entry(kC, Num(1)) >>)) >>)
vBCD == Obj(<< Entry(kB, vCD) >>)
vBList == Obj(<< Entry(kB, vList) >>)

NoCall == [node |-> "none", target |-> Undef, source |-> Undef, path |-> kNone, value |-> Undef]

MergeVals == { Num(1), Null, Bool(FALSE), vHi, vList, vB1, vCD, vBCD, vBList }
MergeObjs ==
  { EmptyObj, Obj(<< Entry(kB, Num(2)) >>), Obj(<< Entry(kValueOf, vB1) >>) }
    \cup { Obj(<< Entry(kA, x) >>) : x \in MergeVals }
    \cup { Obj(<< Entry(kA, x), Entry(kB, Num(2)) >>) : x \in { Num(1), vB1 } }

PathVals == { Null, Bool(TRUE), Num(1), vHi, vList, vB1, vBNull, vBC1 }
PathObjs == { EmptyObj } \cup { Obj(<< Entry(kA, x) >>) : x \in PathVals }
PathKeys == { kA, kB, kAB, kA0, kABC, kAValueOf }

UtilCalls ==
  { [NoCall EXCEPT !.node = "deepMerge", !.target = t, !.source = u]
      : t \in MergeObjs, u \in MergeObjs }
    \cup { [NoCall EXCEPT !.node = "getNestedValue", !.target = o, !.path = q]
              : o \in PathObjs, q \in PathKeys }
    \cup { [NoCall EXCEPT !.node = "setNestedValue", !.target = o, !.path = q, !.value = x]
              : o \in PathObjs, q \in PathKeys, x \in { Num(2), Null } }
    \cup { [NoCall EXCEPT !.node = "deleteNestedValue", !.target = o, !.path = q]
              : o \in PathObjs, q \in PathKeys }

InitUtil ==
  /\ jsonVault = Undef
  /\ pre = Undef
  /\ op \in UtilCalls
  /\ res = NoRes
  /\ nops = 0

Call(node, obj, value) ==
  /\ nops = 0
  /\ op.node = node
  /\ res' = [obj |-> obj, value |-> value]
  /\ nops' = 1
  /\ UNCHANGED << jsonVault, pre, op >>

DeepMerge == Call("deepMerge", op.target, deepMerge(op.target, op.source))
GetNestedValue == Call("getNestedValue", op.target, getNestedValue(op.target, op.path))
SetNestedValue ==
  Call("setNestedValue", setNestedValue(op.target, op.path, op.value), Undef)
DeleteNestedValue ==
  Call("deleteNestedValue", deleteNestedValue(op.target, op.path).obj,
       Bool(deleteNestedValue(op.target, op.path).deleted))

NextUtil ==
  \/ DeepMerge
  \/ GetNestedValue
  \/ SetNestedValue
  \/ DeleteNestedValue

SpecUtil == InitUtil /\ [][NextUtil]_vars

Called(node) == nops = 1 /\ op.node = node

\* C22: for every key k of source whose value is an object, the result of
\* deepMerge holds at k the recursive merge of target[k] and source[k] when
\* target[k] is present and an object, and source[k] itself otherwise (in
\* particular when target[k] is a scalar, null or an array).
C22_ConflictRule ==
  Called("deepMerge") =>
    LET T == AsMapping(op.target)
        S == AsMapping(op.source)
        R == AsMapping(res.value)
    IN \A k \in DOMAIN S.m :
         IsMapping(S.m[k]) =>
           /\ k \in DOMAIN R.m
           /\ R.m[k] = IF k \in DOMAIN T.m /\ IsMapping(T.m[k])
                          THEN merge(T.m[k], S.m[k])
                          ELSE S.m[k]

(***************************************************************************)
(* deepMerge with object identities.  A heap is a sequence of cells; the   *)
(* address of a cell is its position.  A cell is an object or an array     *)
(* whose property values and elements are scalars or references Ref(a) to  *)
(* other cells, so that two properties can hold the same container.  The   *)
(* routine is the one above, with `{ ...target }` allocating a new cell    *)
(* and assignments to `output` updating that cell in place.                *)
(***************************************************************************)
Ref(a) == [t |-> "ref", a |-> a]
IsRef(v) == v.t = "ref"

\* the cell a value denotes: the container behind a reference, or the scalar
Cell(heap, v) == IF IsRef(v) THEN heap[v.a] ELSE v

\* Mutant of isObjectAt: without the test !Array.isArray(item).
isObjectAtOrArray(heap, item) == IsRef(item) /\ heap[item.a].t \in {"object", "array"}

\* isObject(item) for a heap value
isObjectAt(heap, item) == IsRef(item) /\ heap[item.a].t = "object"

RECURSIVE alloc(_, _)
RECURSIVE allocAll(_, _, _, _)
\* the values vals[i..] built in the heap, one after the other
allocAll(heap, vals, i, refs) ==
  IF i > Len(vals) THEN [heap |-> heap, refs |-> refs]
  ELSE LET r == alloc(heap, vals[i])
       IN allocAll(r.heap, vals, i + 1, Append(refs, r.ref))

\* a value built in the heap (as JSON.parse builds it): [heap, ref]
alloc(heap, v) ==
  IF v.t = "object"
    THEN LET r == allocAll(heap, [i \in 1..Len(v.props) |-> v.props[i].val], 1, << >>)
         IN [heap |-> Append(r.heap,
                             Obj([i \in 1..Len(v.props) |->
                                    Entry(v.props[i].key, r.refs[i])])),
             ref |-> Ref(Len(r.heap) + 1)]
  ELSE IF v.t = "array"
    THEN LET r == allocAll(heap, v.elems, 1, << >>)
         IN [heap |-> Append(r.heap, Arr(r.refs, v.props)),
             ref |-> Ref(Len(r.heap) + 1)]
  ELSE [heap |-> heap, ref |-> v]

\* output[key] = val, output being the cell at address a
assign(heap, a, key, val) == [heap EXCEPT ![a] = Put(heap[a], key, val)]

RECURSIVE deepMergeAt(_, _, _)
RECURSIVE mergeKeysAt(_, _, _, _, _)
\* the forEach over Object.keys(source) inside deepMerge, from position i;
\* output is the cell at address a
mergeKeysAt(heap, a, target, source, i) ==
  IF i > Len(heap[source.a].props) THEN [heap |-> heap, ref |-> Ref(a)]
  ELSE LET key == heap[source.a].props[i].key
           sv == heap[source.a].props[i].val
           r == deepMergeAt(heap, Get(heap[target.a], key), sv)
           h == IF isObjectAt(heap, sv)
                  THEN IF ~In(key, heap[target.a])
                         THEN assign(heap, a, key, sv)
                         ELSE assign(r.heap, a, key, r.ref)
                  ELSE assign(heap, a, key, sv)
       IN mergeKeysAt(h, a, target, source, i + 1)

\* Mutant of deepMergeAt: `output = target` in place of `output = { ...target }`.
deepMergeAtNoCopy(heap, target, source) ==
  IF isObjectAt(heap, target) /\ isObjectAt(heap, source)
    THEN mergeKeysAt(heap, target.a, target, source, 1)
    ELSE [heap |-> heap, ref |-> target]

\* vault-utils.ts deepMerge on the heap: [heap, ref] when it returns
deepMergeAt(heap, target, source) ==
  LET a == Len(heap) + 1
      h == Append(heap, Spread(Cell(heap, target)))
  IN IF isObjectAt(heap, target) /\ isObjectAt(heap, source)
       THEN mergeKeysAt(h, a, target, source, 1)
       ELSE [heap |-> h, ref |-> Ref(a)]

\* The heap before a call deepMerge(target, source) of two separate values.
Loaded(t, u) ==
  LET r == alloc(<< >>, t)
      q == alloc(r.heap, u)
  IN [heap |-> q.heap, target |-> r.ref, source |-> q.ref]

\* The heap before a call deepMerge(x, x).
LoadedOnce(t) ==
  LET r == alloc(<< >>, t)
  IN [heap |-> r.heap, target |-> r.ref, source |-> r.ref]

InitHeap ==
  /\ jsonVault = Undef
  /\ pre \in { Loaded(t, u) : t \in MergeObjs, u \in MergeObjs }
               \cup { LoadedOnce(t) : t \in MergeObjs }
  /\ op = [NoCall EXCEPT !.node = "deepMerge", !.target = pre.target, !.source = pre.source]
  /\ res = NoRes
  /\ nops = 0

DeepMergeAt ==
  /\ nops = 0
  /\ res' = deepMergeAt(pre.heap, op.target, op.source)
  /\ nops' = 1
  /\ UNCHANGED << jsonVault, pre, op >>

NextHeap == DeepMergeAt

SpecHeap == InitHeap /\ [][NextHeap]_vars

\* C23: deepMerge is pure.  After the call every container that existed
\* before it (the inputs, at every depth) is as it was, and the container
\* returned is a new one, distinct from both inputs.
C23_DeepMergePure ==
  nops = 1 =>
    /\ \A a \in 1..Len(pre.heap) : res.heap[a] = pre.heap[a]
    /\ IsRef(res.ref)
    /\ res.ref.a \notin 1..Len(pre.heap)
    /\ res.ref # op.target
    /\ res.ref # op.source

\* deepMerge returned a merge of two objects with a common key, in which a
\* container of the source is shared with the result.
C23_Witness ==
  /\ nops = 1
  /\ op.target # op.source
  /\ \E i \in 1..Len(res.heap[res.ref.a].props) :
       /\ In(res.heap[res.ref.a].props[i].key, pre.heap[op.target.a])
       /\ res.heap[res.ref.a].props[i].val
            \in { pre.heap[op.source.a].props[j].val
                    : j \in 1..Len(pre.heap[op.source.a].props) }
       /\ IsRef(res.heap[res.ref.a].props[i].val)

IsArrayAt(heap, v) == IsRef(v) /\ heap[v.a].t = "array"

RECURSIVE ArraysKept(_, _, _, _, _)
\* In the merge r of t and s, at every depth the merge descends to, a key
\* of the source holding an array holds that very array, as it was.
ArraysKept(before, after, t, s, r) ==
  \A i \in 1..Len(before[s.a].props) :
    LET k == before[s.a].props[i].key
        sv == before[s.a].props[i].val
    IN /\ IsArrayAt(before, sv) =>
            /\ Get(after[r.a], k) = sv
            /\ after[sv.a] = before[sv.a]
       /\ (isObjectAt(before, sv) /\ HasOwn(before[t.a], k)
              /\ isObjectAt(before, Get(before[t.a], k))) =>
            ArraysKept(before, after, Get(before[t.a], k), sv, Get(after[r.a], k))

\* C24: deepMerge treats arrays as scalars: whenever source[k] is an array,
\* result[k] is exactly source[k] (the same array, unchanged), whatever
\* target[k] is.
C24_ArraysAsScalars ==
  nops = 1 => ArraysKept(pre.heap, res.heap, op.target, op.source, res.ref)

\* deepMerge returned with the source's array at a key where the target
\* held another value.
C24_Witness ==
  /\ nops = 1
  /\ HasOwn(pre.heap[op.target.a], kA)
  /\ IsArrayAt(pre.heap, Get(pre.heap[op.source.a], kA))
  /\ Get(res.heap[res.ref.a], kA) = Get(pre.heap[op.source.a], kA)
  /\ Get(pre.heap[op.target.a], kA) # Get(pre.heap[op.source.a], kA)

IsScalar(c) == c.t \in {"null", "boolean", "number", "string"}

\* C25: for two objects with disjoint key sets the deep merge holds every
\* key of both with its original value, and is the same mapping whichever
\* of the two is the target; on a key of both whose value in the source is
\* a scalar the source's value is kept.
C25_DisjointAndOverlap ==
  Called("deepMerge") =>
    LET T == AsMapping(op.target)
        S == AsMapping(op.source)
        R == AsMapping(res.value)
    IN /\ (DOMAIN T.m) \cap (DOMAIN S.m) = {} =>
            /\ DOMAIN R.m = (DOMAIN T.m) \cup (DOMAIN S.m)
            /\ \A k \in DOMAIN T.m : R.m[k] = T.m[k]
            /\ \A k \in DOMAIN S.m : R.m[k] = S.m[k]
            /\ R = AsMapping(deepMerge(op.source, op.target))
       /\ \A k \in (DOMAIN T.m) \cap (DOMAIN S.m) :
            IsScalar(S.m[k]) => R.m[k] = S.m[k]

\* The outcome of a node run on a vault `obj` with key `path` and payload 1.
InsertOn(obj, path) ==
  InsertJsonExecute(obj, path, "replace", "manual", JsonText(vOne), EmptyObj).res
UpdateOn(obj, path) ==
  UpdateJsonExecute(obj, path, "replace", FALSE, "manual", JsonText(vOne), EmptyObj).res
DeleteOn(obj, path) == DeleteJsonExecute(obj, path, TRUE).res

\* C26: path resolution returns NOT_FOUND (undefined) whenever an
\* intermediate segment is absent or holds a non-object (null, boolean,
\* number, string, array), and the stored value otherwise.  A stored null is
\* not NOT_FOUND: a key holding null exists for Insert in replace mode
\* (KeyAlreadyExists), for Update (succeeds without createIfNotExists) and
\* for Delete (succeeds with errorIfNotExists).
C26_ResolveNotFound ==
  Called("getNestedValue") =>
    LET r == resolve(AsMapping(op.target), Split(op.path))
    IN /\ r = NOT_FOUND => res.value = Undef
       /\ r # NOT_FOUND => AsMapping(res.value) = r
       /\ r = Null =>
            /\ res.value # Undef
            /\ InsertOn(op.target, op.path).error = "KeyAlreadyExists"
            /\ UpdateOn(op.target, op.path).success
            /\ DeleteOn(op.target, op.path).success

Prefix(path, n) == SubSeq(path, 1, n)

\* C27: setting a value at a dotted path replaces by a new empty object
\* every intermediate segment that is absent or holds a non-object (null,
\* boolean, number, string, array), keeps every intermediate object with
\* its other keys, and assigns the value at the last segment: afterwards
\* every proper prefix of the path resolves to an object and the path to
\* the value.
C27_SetCreatesObjects ==
  Called("setNestedValue") =>
    LET path == Split(op.path)
        after == AsMapping(res.obj)
    IN /\ after = ensureAndSet(AsMapping(op.target), path, AsMapping(op.value))
       /\ \A n \in 1..(Len(path) - 1) : IsMapping(resolve(after, Prefix(path, n)))
       /\ resolve(after, path) = AsMapping(op.value)

\* C28: removing a dotted path never creates or alters a container.  When
\* an intermediate segment is absent or holds a non-object it returns false
\* and the Document is unchanged; otherwise it removes the key of the last
\* segment from its parent and returns true when that key is present, and
\* returns false with the Document unchanged when it is absent.
C28_DeleteAltersNothingElse ==
  Called("deleteNestedValue") =>
    LET path == Split(op.path)
        before == AsMapping(op.target)
        after == AsMapping(res.obj)
    IN IF resolve(before, path) = NOT_FOUND
         THEN res.value = Bool(FALSE) /\ after = before
         ELSE res.value = Bool(TRUE) /\ after = remove(before, path)

(***************************************************************************)
(* The executions as they would be with every key, dotted or not, handled  *)
(* by the branch of the dotted keys: getNestedValue, setNestedValue and    *)
(* deleteNestedValue on the path key.split('.').                           *)
(***************************************************************************)
InsertViaPath(slot, key, mergeMode, dataSource, jsonData, itemJson) ==
  LET vault == IF ~Truthy(slot) THEN EmptyObj ELSE slot
  IN IF Len(key) = 0 THEN Thrown(vault, "KeyInvalid")
     ELSE IF ~validateKey(key) THEN Thrown(vault, "KeyInvalid")
     ELSE IF dataSource = "manual" /\ ~jsonData.parses
       THEN Thrown(vault, "MalformedPayload")
     ELSE
       LET jsonValue == IF dataSource = "manual" THEN jsonData.value ELSE itemJson
           existingValue == getNestedValue(vault, key)
           merged ==
             IF mergeMode = "merge" /\ existingValue # Undef
                  /\ TypeOf(existingValue) = "object" /\ ~IsArray(existingValue)
                  /\ TypeOf(jsonValue) = "object" /\ ~IsArray(jsonValue)
               THEN deepMerge(existingValue, jsonValue)
               ELSE jsonValue
           after == setNestedValue(vault, key, merged)
       IN IF mergeMode = "replace" /\ existingValue # Undef
            THEN Thrown(vault, "KeyAlreadyExists")
          ELSE IF ~validateVaultSize(after) THEN Thrown(after, "VaultSizeExceeded")
          ELSE Returned(after, [NoRes EXCEPT !.action = "inserted",
                                             !.keys = ObjectKeys(after),
                                             !.count = Len(after.props)])

UpdateViaPath(slot, key, mergeMode, createIfNotExists, dataSource, jsonData, itemJson) ==
  LET vault == IF ~Truthy(slot) \/ TypeOf(slot) # "object" THEN EmptyObj ELSE slot
  IN IF Len(key) = 0 THEN Thrown(vault, "KeyInvalid")
     ELSE IF ~validateKey(key) THEN Thrown(vault, "KeyInvalid")
     ELSE
       LET existingValue == getNestedValue(vault, key)
       IN IF existingValue = Undef /\ ~createIfNotExists
            THEN Thrown(vault, "KeyNotFound")
          ELSE IF dataSource = "manual" /\ ~jsonData.parses
            THEN Thrown(vault, "MalformedPayload")
          ELSE
            LET jsonValue == IF dataSource = "manual" THEN jsonData.value ELSE itemJson
                doMerge == mergeMode = "merge" /\ existingValue # Undef
                             /\ TypeOf(existingValue) = "object" /\ ~IsArray(existingValue)
                             /\ TypeOf(jsonValue) = "object" /\ ~IsArray(jsonValue)
                after == setNestedValue(vault, key,
                           IF doMerge THEN deepMerge(existingValue, jsonValue)
                                      ELSE jsonValue)
            IN IF ~validateVaultSize(after) THEN Thrown(after, "VaultSizeExceeded")
               ELSE Returned(after, [NoRes EXCEPT !.action = "updated",
                                                  !.existed = (existingValue # Undef)])

DeleteViaPath(slot, key, errorIfNotExists) ==
  LET vault == IF ~Truthy(slot) THEN EmptyObj ELSE slot
  IN IF Len(key) = 0 THEN Thrown(vault, "KeyInvalid")
     ELSE IF ~validateKey(key) THEN Thrown(vault, "KeyInvalid")
     ELSE
       LET existingValue == getNestedValue(vault, key)
           found == existingValue # Undef
           del == deleteNestedValue(vault, key)
           existed == found /\ del.deleted
           after == IF found THEN del.obj ELSE vault
       IN IF ~found /\ errorIfNotExists THEN Thrown(vault, "KeyNotFound")
          ELSE IF ~validateVaultSize(after) THEN Thrown(after, "VaultSizeExceeded")
          ELSE Returned(after,
                 [NoRes EXCEPT !.action = "deleted", !.existed = existed,
                               !.value = IF existed THEN existingValue ELSE Undef])

FindViaPath(slot, key, errorIfNotExists) ==
  IF slot = Undef \/ TypeOf(slot) # "object" \/ slot = Null
    THEN IF errorIfNotExists /\ Len(key) > 0
           THEN Thrown(slot, "KeyNotFound")
           ELSE Returned(slot, [NoRes EXCEPT !.action = "find", !.value = Null])
  ELSE IF Len(key) = 0 THEN Thrown(slot, "KeyInvalid")
  ELSE IF ~validateKey(key) THEN Thrown(slot, "KeyInvalid")
  ELSE LET looked == getNestedValue(slot, key)
           foundValue == IF looked = Undef THEN Null ELSE looked
       IN IF looked = Undef /\ errorIfNotExists
            THEN Thrown(slot, "KeyNotFound")
            ELSE Returned(slot,
                   [NoRes EXCEPT !.action = "find",
                                 !.existed = (foundValue # Null /\ foundValue # Undef),
                                 !.value = foundValue,
                                 !.count = countVaultKeys(slot)])

\* The last execution, had it gone through the path routines.
ViaPath ==
  CASE IsInsert -> InsertViaPath(pre, op.key, op.mergeMode, op.dataSource,
                                 op.jsonData, op.itemJson)
    [] IsUpdate -> UpdateViaPath(pre, op.key, op.mergeMode, op.createIfNotExists,
                                 op.dataSource, op.jsonData, op.itemJson)
    [] IsDelete -> DeleteViaPath(pre, op.key, op.errorIfNotExists)
    [] IsFind -> FindViaPath(pre, op.key, op.errorIfNotExists)

\* C29: the handling of a key without '.' is only an optimization: Insert,
\* Update, Delete and Find leave the same Document and give the same result
\* (success or the same error, existed/found, value) as the path routines
\* do with the one-segment path of that key.
C29_FastPathIsGeneralPath ==
  ((IsInsert \/ IsUpdate \/ IsDelete \/ IsFind) /\ ~IncludesDot(op.key)) =>
    /\ After = Document(ViaPath.vault)
    /\ res.success = ViaPath.res.success
    /\ res.error = ViaPath.res.error
    /\ res.existed = ViaPath.res.existed
    /\ res.value = ViaPath.res.value

\* C30: Find reports found = true exactly when the key's path resolves to a
\* stored value, a stored null included, and found = false exactly when it
\* resolves to NOT_FOUND; with errorIfNotExists it raises KeyNotFound
\* exactly in the NOT_FOUND case.
C30_FoundIffStored ==
  (IsFind /\ ValidKey) =>
    LET stored == resolve(Before, Path) # NOT_FOUND
    IN /\ res.success => res.existed = stored
       /\ res.error = "KeyNotFound" <=> (op.errorIfNotExists /\ ~stored)
       /\ res.success \/ res.error = "KeyNotFound"

(***************************************************************************)
(* Runs at the size limit: {"a":"<s>"} is 8 characters longer than s, so   *)
(* vAtCap under the key a alone serializes to exactly MAX_VAULT_SIZE       *)
(* characters and vOverCap to one more.                                    *)
(***************************************************************************)
vAtCap == Str(<< >>, MAX_VAULT_SIZE - 8)
vOverCap == Str(<< >>, MAX_VAULT_SIZE - 7)

CapKeys == { kA, kB }
CapSources == Texts({ vOne, vAtCap, vOverCap })

NextCap ==
  \/ InsertJson(CapKeys, CapSources)
  \/ UpdateJson(CapKeys, CapSources)
  \/ DeleteJson(CapKeys)

SpecCap == Init /\ [][NextCap]_vars

\* The serialized length of the Document the operation produced.
WrittenLen == JsonLen(IF jsonVault = Undef THEN EmptyObj ELSE jsonVault)

\* The last operation got as far as the size guard.
ReachedGuard ==
  /\ IsInsert \/ IsUpdate \/ IsDelete
  /\ res.error \in {"none", "VaultSizeExceeded"}

\* C31: the size guard rejects a Document if and only if its JSON
\* serialization is longer than 10 * 1024 * 1024 characters: exactly the cap
\* is accepted, cap + 1 is rejected, and the decision depends on the length
\* of the whole Document only, not on the size of the value written.
C31_GuardIsStrictlyGreater ==
  ReachedGuard =>
    /\ res.error = "VaultSizeExceeded" <=> WrittenLen > 10 * 1024 * 1024
    /\ res.success <=> WrittenLen <= 10 * 1024 * 1024

\* A write that produced a Document of exactly the cap was accepted.
C31_Witness ==
  /\ IsInsert
  /\ res.success
  /\ WrittenLen = 10 * 1024 * 1024

IsRead == op.node \in {"listJson", "findKey"}
Ran == op.node # "none"

\* C32 as stated: whatever operation has run (Insert, Update, Delete, Clear,
\* Vault view, List, Find), the slot holds a mapping afterwards.
C32_SlotIsMappingAfterAnyOp ==
  Ran => isObject(jsonVault)

\* C32, amended: Insert, Update, Delete, Clear and the Vault view create the
\* Document as an empty mapping when the slot is absent, whether they then
\* succeed or fail, so the slot holds a mapping after any of them; List and
\* Find read an absent slot as the empty Document and leave it absent.
C32_WritesCreateReadsDoNot ==
  Ran =>
    /\ ~IsRead => isObject(jsonVault)
    /\ (IsRead /\ pre = Undef) =>
         /\ jsonVault = Undef
         /\ (res.success /\ op.node = "listJson") => res.keys = << >>
         /\ (res.success /\ op.node = "findKey") => ~res.existed
    /\ (IsRead /\ pre # Undef) => isObject(jsonVault)

\* A Delete that failed on an absent slot left the empty mapping in it.
C32_Witness ==
  /\ IsDelete
  /\ pre = Undef
  /\ ~res.success
  /\ jsonVault = EmptyObj

(***************************************************************************)
(* Runs over keys of several depths, keys with empty segments included.    *)
(***************************************************************************)
RywKeys == { kA, kAB, kADotDotB, kDotA }
RywSources == Texts({ vOne, Null, vB1, vList })

NextRyw ==
  \/ InsertJson(RywKeys, RywSources)
  \/ UpdateJson(RywKeys, RywSources)
  \/ DeleteJson(RywKeys)

SpecRyw == Init /\ [][NextRyw]_vars

\* The value the write handed to the store.
Written == IF op.dataSource = "manual" THEN op.jsonData.value ELSE op.itemJson

\* The write stored its payload as it is: replace mode, or merge mode where
\* the fallback to replace applies (the stored value or the payload is not
\* a mapping).
StoredAsIs ==
  \/ op.mergeMode = "replace"
  \/ ~IsMapping(resolve(Before, Path))
  \/ ~IsMapping(Payload)

FindAfter == FindKeyExecute(jsonVault, op.key, FALSE).res
ListAfter == ListJsonExecute(jsonVault, "keys", TRUE).res

\* C33: right after a successful Insert or Update that stored value v as it
\* is at a valid key k, Find on k reports found = true with value v and the
\* nested key list contains k, for keys of any depth and keys with empty
\* segments.
C33_ReadYourWrite ==
  (/\ (IsInsert /\ op.mergeMode = "replace") \/ (IsUpdate /\ StoredAsIs)
   /\ res.success
   /\ ValidKey) =>
    /\ FindAfter.success
    /\ FindAfter.existed
    /\ FindAfter.value = Written
    /\ \E i \in 1..Len(ListAfter.keys) : ListAfter.keys[i] = op.key

\* C34: an Insert, Update, Delete or Clear-key on key k, whether it succeeds
\* or fails, leaves unchanged every top-level entry of the Document whose
\* key differs from the first segment of k.
C34_KeyedWriteFrame ==
  (IsInsert \/ IsUpdate \/ IsDelete \/ IsClearKey) =>
    \A t \in (DOMAIN Before.m) \cup (DOMAIN After.m) :
      t # Path[1] => resolve(After, << t >>) = resolve(Before, << t >>)

RECURSIVE PathsOf(_)
\* The paths that resolve to a stored value in mapping c.
PathsOf(c) ==
  IF ~IsMapping(c) THEN {}
  ELSE UNION { { << k >> } \cup { << k >> \o q : q \in PathsOf(c.m[k]) } : k \in DOMAIN c.m }

IsProperPrefix(p, q) == Len(p) < Len(q) /\ SubSeq(q, 1, Len(p)) = p

IsReplaceInsert == IsInsert /\ op.mergeMode = "replace" /\ res.success

\* C35 as stated: after a successful replace-mode Insert at key k every key
\* that resolved to a stored value before still resolves to the same value;
\* only k and newly created containers are added (a container on the way to
\* k gains the new entry and keeps its other entries).
C35_InsertKeepsStoredData ==
  IsReplaceInsert =>
    \A p \in PathsOf(Before) :
      (IsProperPrefix(p, Path) /\ IsMapping(resolve(Before, p)))
        \/ resolve(After, p) = resolve(Before, p)

\* C35, amended: after a successful replace-mode Insert at key k every key
\* that is not a proper prefix of k resolves as before; a proper prefix of k
\* that held a mapping still holds a mapping, and one that held a value that
\* is not an object (null, boolean, number, string) holds a new mapping in
\* its place: the walk to k overwrites it.
C35_InsertKeepsAllButPrefixes ==
  IsReplaceInsert =>
    \A p \in PathsOf(Before) :
      IF IsProperPrefix(p, Path)
        THEN (IsMapping(resolve(Before, p)) \/ IsScalar(resolve(Before, p)))
               => IsMapping(resolve(After, p))
        ELSE resolve(After, p) = resolve(Before, p)

\* A replace-mode Insert below a stored null succeeded: the null is gone and
\* a key stored beside it is kept.
C35_Witness ==
  /\ IsReplaceInsert
  /\ op.key = kAB
  /\ resolve(Before, << kA >>) = Null
  /\ IsMapping(resolve(After, << kA >>))
  /\ \E p \in PathsOf(Before) : p[1] # kA /\ resolve(After, p) = resolve(Before, p)

\* C36: deep merge is idempotent in its source: for objects target and
\* source, merging source into deepMerge(target, source) gives that result
\* again.
C36_MergeIdempotent ==
  (Called("deepMerge") /\ isObject(op.target) /\ isObject(op.source)) =>
    AsMapping(deepMerge(res.value, op.source)) = AsMapping(res.value)

\* The last step's write done by the other node on the same slot: Update in
\* merge mode with createIfNotExists for an Insert, Insert in merge mode for
\* an Update.
AsUpdate ==
  UpdateJsonExecute(pre, op.key, "merge", TRUE, op.dataSource, op.jsonData, op.itemJson)
AsInsert ==
  InsertJsonExecute(pre, op.key, "merge", op.dataSource, op.jsonData, op.itemJson)

IsMergeInsert == IsInsert /\ op.mergeMode = "merge"
IsMergeUpsert == IsUpdate /\ op.mergeMode = "merge" /\ op.createIfNotExists

\* C37: Insert in merge mode and Update in merge mode with createIfNotExists
\* are equivalent on the Document: for every Document, valid key and payload
\* both fail with the same error kind or both succeed leaving equal
\* Documents.
C37_MergeInsertIsUpsert ==
  /\ (IsMergeInsert /\ ValidKey) =>
        /\ res.error = AsUpdate.res.error
        /\ res.success => After = Document(AsUpdate.vault)
  /\ (IsMergeUpsert /\ ValidKey) =>
        /\ res.error = AsInsert.res.error
        /\ res.success => After = Document(AsInsert.vault)

\* A merge-mode Insert deep-merged its payload into a stored mapping.
C37_Witness ==
  /\ IsMergeInsert
  /\ res.success
  /\ IsMapping(resolve(Before, Path))
  /\ IsMapping(Payload)
  /\ After # Before
  /\ After # ensureAndSet(Before, Path, Payload)

\* The last step's removal done by the other node on the same slot.
AsDelete == DeleteJsonExecute(pre, op.key, FALSE)
AsClearKey == ClearJsonExecute(pre, "key", op.key)

WithinCap == validateVaultSize(VaultOf(pre))

\* C38: Clear in key mode and Delete with errorIfNotExists = false are
\* equivalent on the Document: for every Document within the size cap and
\* every valid key, both succeed and leave equal Documents.
C38_ClearKeyIsDelete ==
  /\ (IsClearKey /\ ValidKey /\ WithinCap) =>
        /\ res.success /\ AsDelete.res.success
        /\ After = Document(AsDelete.vault)
  /\ (IsDelete /\ ~op.errorIfNotExists /\ ValidKey /\ WithinCap) =>
        /\ res.success /\ AsClearKey.res.success
        /\ After = Document(AsClearKey.vault)

====
